---- MODULE Spec2Model ----
(***************************************************************************)
(* Model of the Aegis Test interfaces generator (scripts/generate.py):     *)
(* one Generator instance, its run() pipeline                              *)
(*   load_events -> load_topics -> validate -> generate_asyncapi           *)
(*   -> generate_java_wrappers -> generate_python_wrappers                 *)
(* over an input repository (events/ and topics/ directories).             *)
(*                                                                         *)
(* Strings with structure are sequences of their parts:                    *)
(*   a file name or a schema identifier is the sequence of its             *)
(*   dot-separated segments ("a.v1.json" is <<"a","v1","json">>, "" is     *)
(*   <<>>), a topic's wire string likewise, and a topic's semantic name    *)
(*   is the sequence of its hyphen-separated words.                        *)
(***************************************************************************)
EXTENDS Integers, Sequences, FiniteSets, TLC

VARIABLES eventsDir, topicsDir, events, topics, domains, pc, failedAt, error,
          cursor, written, asyncapi,
          javaFiles, javaRegistry, pyEventTypes, pyTopics,
          lastCall, run, firstRun, naming

\* The contents of the generated wrapper files.
wrappers == <<javaFiles, javaRegistry, pyEventTypes, pyTopics>>

\* What lies outside one run of the generator: the last call a service made
\* to a generated wrapper, the number of the run and the outputs of the run
\* before it, and a name handed to the naming transforms alone.
outside == <<lastCall, run, firstRun, naming>>

vars == <<eventsDir, topicsDir, events, topics, domains, pc, failedAt, error,
          cursor, written, asyncapi, wrappers, outside>>

\* ------------------------------------------------------------------ bounds
MaxEventFiles == 2
MaxTopicFiles == 2
MaxNameLen == 4

\* ------------------------------------------------------------ small helpers
EmptyMap == [x \in {} |-> x]

Get(d, k, default) == IF k \in DOMAIN d THEN d[k] ELSE default

\* ------------------------------------------------------------------ inputs
\* Event file names, listed in lexicographic order of the file name, so that
\* the rank of a name in this list orders the files as sorted() does.
EventFileNames ==
    << <<"order", "created", "json">>,
       <<"specification-created", "json">>,
       <<"specification-created", "v1", "json">>,
       <<"specification-created", "v2", "json">> >>

EvTitle == <<"SpecificationCreatedEventV1">>

\* The JSON documents an event file may hold: with or without a title.
EventDocs ==
    { [title |-> EvTitle, type |-> "object"],
      [type |-> "object"] }

\* subscriptions values: a YAML mapping, or a YAML null ("subscriptions:").
Mapping(m) == [kind |-> "mapping", items |-> m]
Null == [kind |-> "null"]

FullTopicDoc(n, w, prod, cons, subs, pay) ==
    [name |-> n, topic |-> w, description |-> "d", producedBy |-> prod,
     consumedBy |-> cons, subscriptions |-> subs, payload |-> pay]

\* The YAML documents a topic file may hold.
TopicDocs ==
    { FullTopicDoc(<<"specification", "created">>,
                   <<"aegis-test", "specification", "created">>,
                   <<"portal">>, <<"analytics", "notifications">>,
                   Mapping([analytics |-> "analytics.sub",
                            notifications |-> "notifications.sub"]),
                   [schema |-> EvTitle, type |-> "event"]),
      FullTopicDoc(<<"specification", "requested">>,
                   <<"aegis-test", "specification", "requested">>,
                   <<"portal">>, <<"orchestrator">>,
                   Mapping([orchestrator |-> "orchestrator.sub"]),
                   [schema |-> <<"specification-created">>]),
      \* the same semantic name as the first document, another wire string
      FullTopicDoc(<<"specification", "created">>,
                   <<"aegis-test", "billing", "created">>,
                   <<"portal">>, <<"orchestrator">>,
                   Mapping([orchestrator |-> "orchestrator.sub"]),
                   [schema |-> EvTitle, type |-> "event"]),
      \* a command-typed topic
      FullTopicDoc(<<"invoice", "issue">>,
                   <<"aegis-test", "billing", "issue">>,
                   <<"portal">>, <<"orchestrator">>,
                   Mapping([orchestrator |-> "orchestrator.sub"]),
                   [schema |-> EvTitle, type |-> "command"]),
      \* "subscriptions:" left empty, which YAML loads as null
      FullTopicDoc(<<"invoice", "paid">>,
                   <<"aegis-test", "billing", "paid">>,
                   <<"portal">>, <<>>, Null,
                   [schema |-> EvTitle, type |-> "event"]),
      \* a wire string with no dot
      FullTopicDoc(<<"audit">>, <<"audit">>,
                   <<"portal">>, <<"orchestrator">>,
                   Mapping([orchestrator |-> "orchestrator.sub"]),
                   [schema |-> EvTitle, type |-> "event"]),
      \* required fields missing: topic and subscriptions
      [name |-> <<"invoice", "voided">>, producedBy |-> <<"portal">>,
       consumedBy |-> <<"orchestrator">>,
       payload |-> [schema |-> EvTitle, type |-> "event"]],
      \* required field missing: payload
      [name |-> <<"invoice", "sent">>,
       topic |-> <<"aegis-test", "billing", "sent">>,
       producedBy |-> <<"portal">>, consumedBy |-> <<"orchestrator">>,
       subscriptions |-> Mapping([orchestrator |-> "orchestrator.sub"])] }

\* The documents that differ in their consumers and subscriptions; consumer
\* identifiers are non-empty strings.
ConsumerTopicDocs ==
    { \* two consumers
      FullTopicDoc(<<"specification", "created">>,
                   <<"aegis-test", "specification", "created">>,
                   <<"portal">>, <<"analytics", "notifications">>,
                   Mapping([analytics |-> "analytics.sub",
                            notifications |-> "notifications.sub"]),
                   [schema |-> EvTitle, type |-> "event"]),
      \* one consumer; the schema is referenced by a file's base name
      FullTopicDoc(<<"specification", "requested">>,
                   <<"aegis-test", "specification", "requested">>,
                   <<"portal">>, <<"orchestrator">>,
                   Mapping([orchestrator |-> "orchestrator.sub"]),
                   [schema |-> <<"specification-created">>]),
      \* one consumer; the same semantic name as the first document
      FullTopicDoc(<<"specification", "created">>,
                   <<"aegis-test", "billing", "created">>,
                   <<"portal">>, <<"orchestrator">>,
                   Mapping([orchestrator |-> "orchestrator.sub"]),
                   [schema |-> EvTitle, type |-> "event"]),
      \* no consumer at all
      FullTopicDoc(<<"invoice", "refunded">>,
                   <<"aegis-test", "billing", "refunded">>,
                   <<"portal">>, <<>>, Mapping(EmptyMap),
                   [schema |-> EvTitle, type |-> "event"]),
      \* one consumer, whose name is not a key of the subscriptions
      FullTopicDoc(<<"audit", "created">>,
                   <<"aegis-test", "audit", "created">>,
                   <<"portal">>, <<"orchestrator">>,
                   Mapping([analytics |-> "analytics.sub"]),
                   [schema |-> EvTitle, type |-> "event"]) }

\* A directory: whether it exists, and its files (file -> document).  Event
\* files are named by their rank in EventFileNames, topic files t1.yaml,
\* t2.yaml, ... by their number.
Directories(names, maxFiles, docs) ==
    {[exists |-> FALSE, files |-> EmptyMap]} \cup
    { [exists |-> TRUE, files |-> f] :
        f \in UNION { [S -> docs] :
                        S \in {T \in SUBSET names : Cardinality(T) <= maxFiles} } }

\* The orders in which glob() may enumerate the files of a directory.
GlobOrders(S) ==
    { s \in [1..Cardinality(S) -> S] :
        \A i, j \in 1..Cardinality(S) : i # j => s[i] # s[j] }

\* sorted(): insertion of each file at its place in file-name order.
RECURSIVE InsertSorted(_, _)
InsertSorted(s, f) ==
    IF s = <<>> THEN <<f>>
    ELSE IF f < Head(s) THEN <<f>> \o s
    ELSE <<Head(s)>> \o InsertSorted(Tail(s), f)

Sorted_GlobOrder(s) == s

RECURSIVE Sorted(_)
Sorted(s) == IF s = <<>> THEN <<>> ELSE InsertSorted(Sorted(Tail(s)), Head(s))

\* ------------------------------------------------------------------ errors
NoError ==
    [type |-> "none", file |-> 0, field |-> "", topic |-> <<>>, ref |-> <<>>,
     kind |-> ""]

FileNotFoundError == [NoError EXCEPT !.type = "FileNotFoundError"]

MissingFieldError(f, field) ==
    [NoError EXCEPT !.type = "MissingField", !.file = f, !.field = field]

IndexError(f) == [NoError EXCEPT !.type = "IndexError", !.file = f]

UnknownSchemaError(t) ==
    [NoError EXCEPT !.type = "UnknownSchema", !.topic = t.name,
                    !.ref = t.event_schema]

InvalidTypeError(t) ==
    [NoError EXCEPT !.type = "InvalidType", !.topic = t.name,
                    !.kind = t.event_type]

KeyError(t) ==
    [NoError EXCEPT !.type = "KeyError", !.topic = t.name,
                    !.ref = t.event_schema]

AttributeError(t) ==
    [NoError EXCEPT !.type = "AttributeError", !.topic = t.name]

\* ------------------------------------------------------------------- Event
\* Path.stem: the file name without its last suffix.
Stem(fname) == SubSeq(fname, 1, Len(fname) - 1)

\* json_file.stem.rsplit(".", 1)[0]: the stem up to its last dot, the whole
\* stem when it has no dot.
BaseName(fname) ==
    LET stem == Stem(fname)
    IN  IF Len(stem) >= 2 THEN SubSeq(stem, 1, Len(stem) - 1) ELSE stem

MakeEvent(f, schema) ==
    [name |-> BaseName(EventFileNames[f]), schema_path |-> f, schema |-> schema]

\* Event.schema_name
SchemaName(event) == Get(event.schema, "title", event.name)

\* self.events[event.schema_name] = event
AddEvent_FirstWins(evs, event) ==
    IF SchemaName(event) \in DOMAIN evs THEN evs
    ELSE (SchemaName(event) :> event) @@ evs

AddEvent(evs, event) == (SchemaName(event) :> event) @@ evs

\* The loop of load_events over the sorted files.
RECURSIVE LoadEventFiles(_, _, _)
LoadEventFiles(files, dir, evs) ==
    IF files = <<>> THEN evs
    ELSE LoadEventFiles(Tail(files), dir,
                        AddEvent(evs, MakeEvent(Head(files), dir[Head(files)])))

\* ------------------------------------------------------------------- Topic
RequiredFields_NoPayload ==
    <<"name", "topic", "producedBy", "consumedBy", "subscriptions">>

RequiredFields ==
    <<"name", "topic", "producedBy", "consumedBy", "subscriptions", "payload">>

\* The first required field the document lacks, "" when it has them all.
RECURSIVE FirstMissingFrom(_, _)
FirstMissingFrom(fields, doc) ==
    IF fields = <<>> THEN ""
    ELSE IF Head(fields) \notin DOMAIN doc THEN Head(fields)
    ELSE FirstMissingFrom(Tail(fields), doc)

FirstMissing(doc) == FirstMissingFrom(RequiredFields, doc)

BuildTopic(doc) ==
    LET payload == Get(doc, "payload", EmptyMap)
    IN  [name          |-> Get(doc, "name", <<>>),
         topic         |-> Get(doc, "topic", <<>>),
         description   |-> Get(doc, "description", ""),
         produced_by   |-> Get(doc, "producedBy", <<>>),
         consumed_by   |-> Get(doc, "consumedBy", <<>>),
         subscriptions |-> Get(doc, "subscriptions", Mapping(EmptyMap)),
         event_schema  |-> Get(payload, "schema", <<>>),
         event_type    |-> Get(payload, "type", "event")]

\* topic.topic.split(".")[1]
DomainOf_First(topic) == topic.topic[1]

DomainOf(topic) == topic.topic[2]

HasDomain(topic) == Len(topic.topic) >= 2

AddToDomain(ds, d, topic) ==
    IF d \in DOMAIN ds THEN [ds EXCEPT ![d] = Append(@, topic)]
    ELSE (d :> <<topic>>) @@ ds

\* The loop of load_topics over the sorted files; st is the generator's
\* [topics, domains] with the error that ended the loop, if any.
RECURSIVE LoadTopicFiles(_, _, _)
LoadTopicFiles(files, dir, st) ==
    IF files = <<>> THEN st
    ELSE LET f       == Head(files)
             doc     == dir[f]
             missing == FirstMissing(doc)
             topic   == BuildTopic(doc)
         IN  IF missing # ""
             THEN [st EXCEPT !.error = MissingFieldError(f, missing)]
             ELSE IF ~HasDomain(topic)
             THEN [st EXCEPT !.topics = Append(@, topic),
                             !.error = IndexError(f)]
             ELSE LoadTopicFiles(Tail(files), dir,
                    [st EXCEPT !.topics = Append(@, topic),
                               !.domains = AddToDomain(@, DomainOf(topic), topic)])

\* ---------------------------------------------------------------- validate
IsSupportedKind_AlsoCommand(kind) == kind \in {"event", "command"}

IsSupportedKind(kind) == kind = "event"

\* Reports the last violating topic instead of the first.
RECURSIVE ValidateFrom_Last(_, _, _)
ValidateFrom_Last(ts, evs, i) ==
    IF i > Len(ts) THEN [error |-> NoError, cursor |-> Len(ts)]
    ELSE LET rest == ValidateFrom_Last(ts, evs, i + 1)
         IN  IF rest.error # NoError THEN rest
             ELSE IF ts[i].event_schema \notin DOMAIN evs
             THEN [error |-> UnknownSchemaError(ts[i]), cursor |-> i]
             ELSE IF ~IsSupportedKind(ts[i].event_type)
             THEN [error |-> InvalidTypeError(ts[i]), cursor |-> i]
             ELSE rest

\* Checks a topic's payload kind before its event reference.
RECURSIVE ValidateFrom_KindFirst(_, _, _)
ValidateFrom_KindFirst(ts, evs, i) ==
    IF i > Len(ts) THEN [error |-> NoError, cursor |-> Len(ts)]
    ELSE IF ~IsSupportedKind(ts[i].event_type)
    THEN [error |-> InvalidTypeError(ts[i]), cursor |-> i]
    ELSE IF ts[i].event_schema \notin DOMAIN evs
    THEN [error |-> UnknownSchemaError(ts[i]), cursor |-> i]
    ELSE ValidateFrom_KindFirst(ts, evs, i + 1)

\* The loop of validate from topic i on: the error raised, if any, and the
\* position of the last topic examined.
RECURSIVE ValidateFrom(_, _, _)
ValidateFrom(ts, evs, i) ==
    IF i > Len(ts) THEN [error |-> NoError, cursor |-> Len(ts)]
    ELSE IF ts[i].event_schema \notin DOMAIN evs
    THEN [error |-> UnknownSchemaError(ts[i]), cursor |-> i]
    ELSE IF ~IsSupportedKind(ts[i].event_type)
    THEN [error |-> InvalidTypeError(ts[i]), cursor |-> i]
    ELSE ValidateFrom(ts, evs, i + 1)

\* ------------------------------------------------------- generate_asyncapi
Address(topic) == <<"projects/{projectId}/topics/", topic.topic>>

MessageRef(ref) == <<"#/components/messages/", ref>>

SchemaRef(ref) == <<"#/components/schemas/", ref>>

Channel(topic) ==
    [address    |-> Address(topic),
     messages   |-> (topic.event_schema :> MessageRef(topic.event_schema)),
     schemaName |-> topic.event_schema]

Message(topic, event) ==
    [name    |-> topic.event_schema,
     title   |-> SchemaName(event),
     payload |-> SchemaRef(topic.event_schema)]

\* The condition inverted: the entry is written only over an existing one.
AddIfAbsent_Inverted(m, k, v) == IF k \in DOMAIN m THEN (k :> v) @@ m ELSE m

\* if key not in collection: collection[key] = value
AddIfAbsent(m, k, v) == IF k \in DOMAIN m THEN m ELSE (k :> v) @@ m

EmptyDocument == [channels |-> EmptyMap, messages |-> EmptyMap, schemas |-> EmptyMap]

\* The loop of generate_asyncapi from topic i on: the document built, and the
\* KeyError of self.events[topic.event_schema] if a reference does not resolve.
RECURSIVE BuildAsyncapi(_, _, _, _)
BuildAsyncapi(ts, evs, i, doc) ==
    IF i > Len(ts) THEN [doc |-> doc, error |-> NoError]
    ELSE IF ts[i].event_schema \notin DOMAIN evs
    THEN [doc |-> doc, error |-> KeyError(ts[i])]
    ELSE LET topic == ts[i]
             event == evs[topic.event_schema]
         IN  BuildAsyncapi(ts, evs, i + 1,
               [channels |-> (topic.name :> Channel(topic)) @@ doc.channels,
                messages |-> AddIfAbsent(doc.messages, topic.event_schema,
                                         Message(topic, event)),
                schemas  |-> AddIfAbsent(doc.schemas, topic.event_schema,
                                         event.schema)])

\* ------------------------------------------------------------ output files
Path(root, domain, class) == [root |-> root, domain |-> domain, class |-> class]

AsyncapiPath == Path("asyncapi.yaml", "", <<>>)

JavaRegistryPath == Path("wrappers/java/messaging/Topics.java", "", <<>>)

PythonDestinationPath == Path("wrappers/python/messaging/destination.py", "", <<>>)

PythonTopicsPath == Path("wrappers/python/messaging/topics.py", "", <<>>)

\* ----------------------------------------------------------------- strings
\* Where a string is transformed character by character it is the sequence
\* of its characters.
Letters == <<"a", "b", "c", "d", "e", "f", "g", "h", "i", "j", "k", "l", "m", "n", "o", "p", "q", "r", "s", "t", "u", "v", "w", "x", "y", "z">>

Capitals == <<"A", "B", "C", "D", "E", "F", "G", "H", "I", "J", "K", "L", "M", "N", "O", "P", "Q", "R", "S", "T", "U", "V", "W", "X", "Y", "Z">>

IndexIn(seq, c) ==
    IF \E i \in DOMAIN seq : seq[i] = c
    THEN CHOOSE i \in DOMAIN seq : seq[i] = c
    ELSE 0

UpperChar(c) == IF IndexIn(Letters, c) # 0 THEN Capitals[IndexIn(Letters, c)] ELSE c

LowerChar(c) == IF IndexIn(Capitals, c) # 0 THEN Letters[IndexIn(Capitals, c)] ELSE c

\* str.upper()
Upper(str) == [i \in 1..Len(str) |-> UpperChar(str[i])]

\* str.lower()
Lower(str) == [i \in 1..Len(str) |-> LowerChar(str[i])]

\* str.capitalize(): the first character upper-cased, the rest lower-cased.
Capitalize(word) ==
    IF word = <<>> THEN <<>>
    ELSE <<UpperChar(Head(word))>> \o Lower(Tail(word))

\* str.split(sep): the parts between the separators, at least one part.
RECURSIVE Split(_, _)
Split(str, sep) ==
    IF str = <<>> THEN << <<>> >>
    ELSE LET rest == Split(Tail(str), sep)
         IN  IF Head(str) = sep THEN << <<>> >> \o rest
             ELSE << <<Head(str)>> \o Head(rest) >> \o Tail(rest)

\* sep.join(parts)
RECURSIVE Join(_, _)
Join(parts, sep) ==
    IF parts = <<>> THEN <<>>
    ELSE IF Len(parts) = 1 THEN Head(parts)
    ELSE Head(parts) \o sep \o Join(Tail(parts), sep)

\* The spelling of the words the topic documents use.
Spell(word) ==
    CASE word = "specification" -> <<"s", "p", "e", "c", "i", "f", "i", "c", "a", "t", "i", "o", "n">>
      [] word = "created" -> <<"c", "r", "e", "a", "t", "e", "d">>
      [] word = "requested" -> <<"r", "e", "q", "u", "e", "s", "t", "e", "d">>
      [] word = "invoice" -> <<"i", "n", "v", "o", "i", "c", "e">>
      [] word = "issue" -> <<"i", "s", "s", "u", "e">>
      [] word = "paid" -> <<"p", "a", "i", "d">>
      [] word = "audit" -> <<"a", "u", "d", "i", "t">>
      [] word = "voided" -> <<"v", "o", "i", "d", "e", "d">>
      [] word = "sent" -> <<"s", "e", "n", "t">>
      [] word = "SpecificationCreatedEventV1" -> <<"S", "p", "e", "c", "i", "f", "i", "c", "a", "t", "i", "o", "n", "C", "r", "e", "a", "t", "e", "d", "E", "v", "e", "n", "t", "V", "1">>
      [] word = "specification-created" -> <<"s", "p", "e", "c", "i", "f", "i", "c", "a", "t", "i", "o", "n", "-", "c", "r", "e", "a", "t", "e", "d">>
      [] word = "order" -> <<"o", "r", "d", "e", "r">>
      [] word = "refunded" -> <<"r", "e", "f", "u", "n", "d", "e", "d">>

\* A topic's semantic name as a string: its words, hyphen-separated.
NameString(name) == Join([i \in 1..Len(name) |-> Spell(name[i])], <<"-">>)

\* Topic.get_java_constant_name
GetJavaConstantName(str) == Join(Split(Upper(str), "-"), <<"_">>)

\* const_name in _generate_java_class (the wrapper's @see Topics#...)
ConstNameJavaClass(str) == Join(Split(Upper(str), "-"), <<"_">>)

\* const_name in _generate_java_topics_registry
ConstNameJavaRegistry(str) == Join(Split(Upper(str), "-"), <<"_">>)

\* const_name in _generate_python_topics
ConstNamePythonTopics_KeepsHyphens(str) == Upper(str)

ConstNamePythonTopics(str) == Join(Split(Upper(str), "-"), <<"_">>)

\* "".join(word.capitalize() for word in topic.name.split("-"))
CapitalizedWords(str) ==
    LET words == Split(str, "-")
    IN  [i \in 1..Len(words) |-> Capitalize(words[i])]

\* class_name in generate_java_wrappers
ClassNameJavaWrappers(str) == Join(CapitalizedWords(str), <<>>)

\* class_name in _generate_java_topics_registry
ClassNameJavaRegistry(str) == Join(CapitalizedWords(str), <<>>)

\* The class name of a topic's Java wrapper.
ClassName(name) == ClassNameJavaWrappers(NameString(name))

JavaWrapperPath(topic) ==
    Path("wrappers/java/topics", DomainOf(topic), ClassName(topic.name))

\* -------------------------------------------------- generate_java_wrappers
\* topic.subscriptions.items() raises AttributeError on a value that is no
\* mapping.
HasItems(topic) == topic.subscriptions.kind = "mapping"

\* Python's None.
None == "<None>"

GetDefaultConsumer_First(topic) ==
    IF Len(topic.consumed_by) >= 1 THEN topic.consumed_by[1] ELSE None

\* Topic.get_default_consumer
GetDefaultConsumer(topic) ==
    IF Len(topic.consumed_by) = 1 THEN topic.consumed_by[1] ELSE None

\* Truth value of a string or None, as "if default_consumer:" tests it.
Truthy(x) == x # None /\ x # ""

\* _generate_java_class: what the generated class holds.
JavaClass(topic, class_name) ==
    [package          |-> DomainOf(topic),
     class            |-> class_name,
     see              |-> ConstNameJavaClass(NameString(topic.name)),
     NAME             |-> topic.name,
     TOPIC            |-> topic.topic,
     SCHEMA           |-> topic.event_schema,
     DEFAULT_CONSUMER |-> IF Truthy(GetDefaultConsumer(topic))
                          THEN GetDefaultConsumer(topic) ELSE None,
     SUBSCRIPTIONS    |-> topic.subscriptions.items]

\* The loop of generate_java_wrappers from topic i on: the files written,
\* their contents, and the error that ended the loop, if any.
RECURSIVE WriteJavaClasses(_, _, _, _)
WriteJavaClasses(ts, i, files, contents) ==
    IF i > Len(ts) THEN [files |-> files, contents |-> contents, error |-> NoError]
    ELSE IF ~HasItems(ts[i])
    THEN [files |-> files, contents |-> contents, error |-> AttributeError(ts[i])]
    ELSE WriteJavaClasses(ts, i + 1, files \cup {JavaWrapperPath(ts[i])},
           (JavaWrapperPath(ts[i]) :> JavaClass(ts[i], ClassName(ts[i].name)))
               @@ contents)

\* ------------------------------------------------ generate_python_wrappers
\* _generate_python_topics renders every topic's subscriptions before it
\* writes topics.py: the first topic whose subscriptions have no items().
RECURSIVE FirstWithoutItems(_, _)
FirstWithoutItems(ts, i) ==
    IF i > Len(ts) THEN 0
    ELSE IF ~HasItems(ts[i]) THEN i
    ELSE FirstWithoutItems(ts, i + 1)

\* Domain tokens, listed in lexicographic order.
DomainNames == <<"aegis-test", "audit", "billing", "specification">>

\* sorted(self.domains.keys())
SortedDomains(ds) ==
    LET InDomains(d) == d \in DOMAIN ds
    IN  SelectSeq(DomainNames, InDomains)

\* The topics in the order the registries render them: domain by domain,
\* the domains sorted.
RECURSIVE Flatten(_, _)
Flatten(keys, ds) ==
    IF keys = <<>> THEN <<>> ELSE ds[Head(keys)] \o Flatten(Tail(keys), ds)

RegistryOrder(ds) == Flatten(SortedDomains(ds), ds)

\* _generate_java_topics_registry: the import lines (sorted in the file, so
\* their set stands for them) and the constants, domain by domain.
JavaRegistry(ts, ds) ==
    [imports |-> { <<DomainOf(ts[i]), ClassNameJavaRegistry(NameString(ts[i].name))>> :
                     i \in 1..Len(ts) },
     constants |-> LET order == RegistryOrder(ds)
                   IN  [i \in 1..Len(order) |->
                          [const   |-> ConstNameJavaRegistry(NameString(order[i].name)),
                           class   |-> ClassNameJavaRegistry(NameString(order[i].name)),
                           package |-> DomainOf(order[i])]]]

\* Schema identifiers, listed in the order Python compares the strings.
SchemaIdentifiers ==
    << <<>>, EvTitle, <<"order">>, <<"order", "created">>, <<"specification-created">> >>

\* sorted(self.topics, key=lambda t: t.event_schema): a stable insertion sort.
RECURSIVE InsertBySchema(_, _)
InsertBySchema(s, t) ==
    IF s = <<>> THEN <<t>>
    ELSE IF IndexIn(SchemaIdentifiers, t.event_schema)
              < IndexIn(SchemaIdentifiers, Head(s).event_schema)
    THEN <<t>> \o s
    ELSE <<Head(s)>> \o InsertBySchema(Tail(s), t)

RECURSIVE SortedBySchema(_)
SortedBySchema(ts) ==
    IF ts = <<>> THEN <<>>
    ELSE InsertBySchema(SortedBySchema(SubSeq(ts, 1, Len(ts) - 1)), ts[Len(ts)])

\* topic.event_schema.upper()
EventTypeName(ref) ==
    Upper(Join([i \in 1..Len(ref) |-> Spell(ref[i])], <<".">>))

\* _generate_python_destination: the members of the EventType enumeration,
\* one line per topic.
EventTypeMembers(ts) ==
    LET order == SortedBySchema(ts)
    IN  [i \in 1..Len(order) |->
           [member |-> EventTypeName(order[i].event_schema),
            value  |-> order[i].topic]]

\* _generate_python_topics: the Destination(...) a constant is bound to.
Destination(topic) ==
    [name             |-> topic.name,
     topic            |-> topic.topic,
     subscriptions    |-> topic.subscriptions.items,
     event_type       |-> EventTypeName(topic.event_schema),
     schema           |-> topic.event_schema,
     default_consumer |-> IF Truthy(GetDefaultConsumer(topic))
                          THEN GetDefaultConsumer(topic) ELSE None]

\* _generate_python_topics: the assignments of the Topics class body, domain
\* by domain.
TopicsAssignments(ds) ==
    LET order == RegistryOrder(ds)
    IN  [i \in 1..Len(order) |->
           [const |-> ConstNamePythonTopics(NameString(order[i].name)),
            dest  |-> Destination(order[i])]]

NoJavaRegistry == [imports |-> {}, constants |-> <<>>]

\* ------------------------------------------------- the generated wrappers
\* What a call to a wrapper gives: a returned value or a raised exception
\* with what its message names.
Return(v) ==
    [kind |-> "return", value |-> v, consumer |-> "", name |-> <<>>, valid |-> {}]

Raise(exception, consumer, name, valid) ==
    [kind |-> exception, value |-> "", consumer |-> consumer, name |-> name,
     valid |-> valid]

GetSubscription_NamesNoConsumer(self, consumer) ==
    IF consumer \notin DOMAIN self.subscriptions
    THEN Raise("KeyError", "", self.name, DOMAIN self.subscriptions)
    ELSE Return(self.subscriptions[consumer])

\* Destination.get_subscription
GetSubscription(self, consumer) ==
    IF consumer \notin DOMAIN self.subscriptions
    THEN Raise("KeyError", consumer, self.name, DOMAIN self.subscriptions)
    ELSE Return(self.subscriptions[consumer])

\* Destination.subscription
Subscription(self) ==
    IF self.default_consumer = None
    THEN Raise("ValueError", "", self.name, DOMAIN self.subscriptions)
    ELSE GetSubscription(self, self.default_consumer)

\* getSubscription(String consumer) of a generated Java class
JavaGetSubscription(class, consumer) ==
    IF consumer \notin DOMAIN class.SUBSCRIPTIONS
    THEN Raise("IllegalArgumentException", consumer, class.NAME,
               DOMAIN class.SUBSCRIPTIONS)
    ELSE Return(class.SUBSCRIPTIONS[consumer])

\* getSubscription() of a generated Java class: one of two bodies, chosen
\* when the class is generated.
JavaGetDefaultSubscription(class) ==
    IF class.DEFAULT_CONSUMER # None
    THEN JavaGetSubscription(class, class.DEFAULT_CONSUMER)
    ELSE Raise("UnsupportedOperationException", "", class.NAME,
               DOMAIN class.SUBSCRIPTIONS)

Digits == <<"0", "1", "2", "3", "4", "5", "6", "7", "8", "9">>

\* Whether Python accepts a string as the target of an assignment.
IsIdentifier(str) ==
    /\ str # <<>>
    /\ IndexIn(Digits, str[1]) = 0
    /\ \A i \in 1..Len(str) :
          \/ IndexIn(Letters, str[i]) # 0
          \/ IndexIn(Capitals, str[i]) # 0
          \/ IndexIn(Digits, str[i]) # 0
          \/ str[i] = "_"

\* Whether the generated destination.py and topics.py can be imported: every
\* assignment target is an identifier, and the body of an Enum class binds
\* no member name twice (Enum raises TypeError when it does).
PythonModuleLoads(members, assignments) ==
    /\ \A i \in 1..Len(members) : IsIdentifier(members[i].member)
    /\ \A i, j \in 1..Len(members) :
          members[i].member = members[j].member => i = j
    /\ \A i \in 1..Len(assignments) : IsIdentifier(assignments[i].const)

\* Topics.<const>: a class body binds a name to the last value assigned.
Bound(assignments, i) ==
    \A j \in 1..Len(assignments) :
        assignments[j].const = assignments[i].const => j <= i

\* The consumer identifiers a calling service may pass.
Consumers == {"analytics", "notifications", "orchestrator", "billing"}

\* -------------------------------------------------------------------- run
\* The order of the stages in run().
NextStage_ValidateLate(stage) ==
    CASE stage = "load_events"              -> "load_topics"
      [] stage = "load_topics"              -> "generate_asyncapi"
      [] stage = "generate_asyncapi"        -> "validate"
      [] stage = "validate"                 -> "generate_java_wrappers"
      [] stage = "generate_java_wrappers"   -> "generate_python_wrappers"
      [] stage = "generate_python_wrappers" -> "done"

NextStage(stage) ==
    CASE stage = "load_events"              -> "load_topics"
      [] stage = "load_topics"              -> "validate"
      [] stage = "validate"                 -> "generate_asyncapi"
      [] stage = "generate_asyncapi"        -> "generate_java_wrappers"
      [] stage = "generate_java_wrappers"   -> "generate_python_wrappers"
      [] stage = "generate_python_wrappers" -> "done"

\* except Exception: print the error, sys.exit(1)
Fail(stage, err) ==
    /\ pc' = "failed"
    /\ failedAt' = stage
    /\ error' = err

Succeed(stage) ==
    /\ pc' = NextStage(stage)
    /\ UNCHANGED <<failedAt, error>>

\* No call made yet, no earlier run, no name under transformation.
NoCall == [lang |-> "", op |-> "", target |-> EmptyMap, consumer |-> "",
           outcome |-> EmptyMap]

NoOutputs == [pc |-> "", written |-> {}, asyncapi |-> EmptyDocument, javaFiles |-> EmptyMap,
              javaRegistry |-> NoJavaRegistry, pyEventTypes |-> <<>>,
              pyTopics |-> <<>>]

NoNaming == [name |-> <<>>, applied |-> FALSE, topicConst |-> <<>>,
             javaClassConst |-> <<>>, javaRegistryConst |-> <<>>,
             pythonConst |-> <<>>, javaWrapperClass |-> <<>>,
             javaRegistryClass |-> <<>>]

\* Generator.__init__, over the topic documents of a catalogue.
InitWith(docs) ==
    /\ eventsDir \in Directories(1..Len(EventFileNames), MaxEventFiles, EventDocs)
    /\ topicsDir \in Directories(1..MaxTopicFiles, MaxTopicFiles, docs)
    /\ events = EmptyMap
    /\ topics = <<>>
    /\ domains = EmptyMap
    /\ pc = "load_events"
    /\ failedAt = ""
    /\ error = NoError
    /\ cursor = 0
    /\ written = {}
    /\ asyncapi = EmptyDocument
    /\ javaFiles = EmptyMap
    /\ javaRegistry = NoJavaRegistry
    /\ pyEventTypes = <<>>
    /\ pyTopics = <<>>
    /\ lastCall = NoCall
    /\ run = 1
    /\ firstRun = NoOutputs
    /\ naming = NoNaming

Init == InitWith(TopicDocs)

LoadEvents ==
    /\ pc = "load_events"
    /\ \E order \in GlobOrders(DOMAIN eventsDir.files) :
         IF ~eventsDir.exists
         THEN /\ Fail("load_events", FileNotFoundError)
              /\ UNCHANGED events
         ELSE /\ events' = LoadEventFiles(Sorted(order), eventsDir.files, events)
              /\ Succeed("load_events")
    /\ UNCHANGED <<eventsDir, topicsDir, topics, domains, cursor, written, asyncapi,
                   wrappers, outside>>

LoadTopics ==
    /\ pc = "load_topics"
    /\ \E order \in GlobOrders(DOMAIN topicsDir.files) :
         IF ~topicsDir.exists
         THEN /\ Fail("load_topics", FileNotFoundError)
              /\ UNCHANGED <<topics, domains>>
         ELSE LET st == LoadTopicFiles(Sorted(order), topicsDir.files,
                          [topics |-> topics, domains |-> domains, error |-> NoError])
              IN  /\ topics' = st.topics
                  /\ domains' = st.domains
                  /\ IF st.error # NoError
                     THEN Fail("load_topics", st.error)
                     ELSE Succeed("load_topics")
    /\ UNCHANGED <<eventsDir, topicsDir, events, cursor, written, asyncapi, wrappers, outside>>

Validate ==
    /\ pc = "validate"
    /\ LET r == ValidateFrom(topics, events, 1)
       IN  /\ cursor' = r.cursor
           /\ IF r.error # NoError
              THEN Fail("validate", r.error)
              ELSE Succeed("validate")
    /\ UNCHANGED <<eventsDir, topicsDir, events, topics, domains, written, asyncapi,
                   wrappers, outside>>

GenerateAsyncapi ==
    /\ pc = "generate_asyncapi"
    /\ LET r == BuildAsyncapi(topics, events, 1, EmptyDocument)
       IN  IF r.error # NoError
           THEN /\ Fail("generate_asyncapi", r.error)
                /\ UNCHANGED <<written, asyncapi>>
           ELSE /\ asyncapi' = r.doc
                /\ written' = written \cup {AsyncapiPath}
                /\ Succeed("generate_asyncapi")
    /\ UNCHANGED <<eventsDir, topicsDir, events, topics, domains, cursor, wrappers, outside>>

GenerateJavaWrappers ==
    /\ pc = "generate_java_wrappers"
    /\ LET r == WriteJavaClasses(topics, 1, written, javaFiles)
       IN  IF r.error # NoError
           THEN /\ written' = r.files
                /\ javaFiles' = r.contents
                /\ UNCHANGED javaRegistry
                /\ Fail("generate_java_wrappers", r.error)
           ELSE /\ written' = r.files \cup {JavaRegistryPath}
                /\ javaFiles' = r.contents
                /\ javaRegistry' = JavaRegistry(topics, domains)
                /\ Succeed("generate_java_wrappers")
    /\ UNCHANGED <<eventsDir, topicsDir, events, topics, domains, cursor, asyncapi,
                   pyEventTypes, pyTopics, outside>>

GeneratePythonWrappers ==
    /\ pc = "generate_python_wrappers"
    /\ pyEventTypes' = EventTypeMembers(topics)
    /\ LET bad == FirstWithoutItems(RegistryOrder(domains), 1)
       IN  IF bad # 0
           THEN /\ written' = written \cup {PythonDestinationPath}
                /\ UNCHANGED pyTopics
                /\ Fail("generate_python_wrappers",
                        AttributeError(RegistryOrder(domains)[bad]))
           ELSE /\ written' = written \cup {PythonDestinationPath, PythonTopicsPath}
                /\ pyTopics' = TopicsAssignments(domains)
                /\ Succeed("generate_python_wrappers")
    /\ UNCHANGED <<eventsDir, topicsDir, events, topics, domains, cursor, asyncapi,
                   javaFiles, javaRegistry, outside>>

Next ==
    \/ LoadEvents
    \/ LoadTopics
    \/ Validate
    \/ GenerateAsyncapi
    \/ GenerateJavaWrappers
    \/ GeneratePythonWrappers

Spec == Init /\ [][Next]_vars

\* Generator.__init__, over the documents that differ in their consumers.
InitRuntime == InitWith(ConsumerTopicDocs)

\* ------------------------------------------- the generator run once more
\* What a run leaves behind: how it ended and the content of every file.
Outputs ==
    [pc |-> pc, written |-> written, asyncapi |-> asyncapi,
     javaFiles |-> javaFiles, javaRegistry |-> javaRegistry,
     pyEventTypes |-> pyEventTypes, pyTopics |-> pyTopics]

\* main, a second time on the same directories: a new Generator, the files
\* of the first run still in place.
Rerun ==
    /\ pc \in {"done", "failed"}
    /\ run = 1
    /\ run' = 2
    /\ firstRun' = Outputs
    /\ events' = EmptyMap
    /\ topics' = <<>>
    /\ domains' = EmptyMap
    /\ cursor' = 0
    /\ pc' = "load_events"
    /\ failedAt' = ""
    /\ error' = NoError
    /\ UNCHANGED <<eventsDir, topicsDir, written, asyncapi, wrappers, lastCall,
                   naming>>

NextRerun == Next \/ Rerun

SpecRerun == InitRuntime /\ [][NextRerun]_vars

\* ------------------------------------- the naming transforms on their own
\* The characters of a semantic name: a lower-case letter, an upper-case
\* letter, a digit and the hyphen.
NameChars == {"a", "B", "1", "-"}

Names == UNION { [1..n -> NameChars] : n \in 0..MaxNameLen }

InitNaming ==
    /\ eventsDir = [exists |-> FALSE, files |-> EmptyMap]
    /\ topicsDir = [exists |-> FALSE, files |-> EmptyMap]
    /\ events = EmptyMap
    /\ topics = <<>>
    /\ domains = EmptyMap
    /\ pc = "naming"
    /\ failedAt = ""
    /\ error = NoError
    /\ cursor = 0
    /\ written = {}
    /\ asyncapi = EmptyDocument
    /\ javaFiles = EmptyMap
    /\ javaRegistry = NoJavaRegistry
    /\ pyEventTypes = <<>>
    /\ pyTopics = <<>>
    /\ lastCall = NoCall
    /\ run = 1
    /\ firstRun = NoOutputs
    /\ naming \in { [NoNaming EXCEPT !.name = n] : n \in Names }

\* Every emitter names the topic.
ApplyNaming ==
    /\ pc = "naming"
    /\ ~naming.applied
    /\ naming' = [name              |-> naming.name,
                  applied           |-> TRUE,
                  topicConst        |-> GetJavaConstantName(naming.name),
                  javaClassConst    |-> ConstNameJavaClass(naming.name),
                  javaRegistryConst |-> ConstNameJavaRegistry(naming.name),
                  pythonConst       |-> ConstNamePythonTopics(naming.name),
                  javaWrapperClass  |-> ClassNameJavaWrappers(naming.name),
                  javaRegistryClass |-> ClassNameJavaRegistry(naming.name)]
    /\ UNCHANGED <<eventsDir, topicsDir, events, topics, domains, pc, failedAt,
                   error, cursor, written, asyncapi, wrappers, lastCall, run,
                   firstRun>>

NextNaming == ApplyNaming

SpecNaming == InitNaming /\ [][NextNaming]_vars

\* ------------------------------ services calling the generated wrappers
Call(lang, op, target, consumer, outcome) ==
    /\ lastCall' = [lang |-> lang, op |-> op, target |-> target,
                    consumer |-> consumer, outcome |-> outcome]
    /\ UNCHANGED <<eventsDir, topicsDir, events, topics, domains, pc, failedAt,
                   error, cursor, written, asyncapi, wrappers, run, firstRun,
                   naming>>

PythonGetSubscription ==
    /\ pc = "done"
    /\ PythonModuleLoads(pyEventTypes, pyTopics)
    /\ \E i \in 1..Len(pyTopics), consumer \in Consumers :
         /\ Bound(pyTopics, i)
         /\ Call("python", "get_subscription", pyTopics[i].dest, consumer,
                 GetSubscription(pyTopics[i].dest, consumer))

PythonSubscription ==
    /\ pc = "done"
    /\ PythonModuleLoads(pyEventTypes, pyTopics)
    /\ \E i \in 1..Len(pyTopics) :
         /\ Bound(pyTopics, i)
         /\ Call("python", "subscription", pyTopics[i].dest, "",
                 Subscription(pyTopics[i].dest))

JavaCallGetSubscription ==
    /\ pc = "done"
    /\ \E p \in DOMAIN javaFiles, consumer \in Consumers :
         Call("java", "get_subscription", javaFiles[p], consumer,
              JavaGetSubscription(javaFiles[p], consumer))

JavaCallGetDefaultSubscription ==
    /\ pc = "done"
    /\ \E p \in DOMAIN javaFiles :
         Call("java", "subscription", javaFiles[p], "",
              JavaGetDefaultSubscription(javaFiles[p]))

NextRuntime ==
    \/ Next
    \/ PythonGetSubscription
    \/ PythonSubscription
    \/ JavaCallGetSubscription
    \/ JavaCallGetDefaultSubscription

SpecRuntime == InitRuntime /\ [][NextRuntime]_vars

\* ======================================================================
\* Properties
\* ======================================================================
Range(s) == {s[i] : i \in DOMAIN s}

LoadEventsRan == pc # "load_events"

LoadEventsSucceeded == LoadEventsRan /\ failedAt # "load_events"

LoadTopicsRan == LoadEventsSucceeded /\ pc # "load_topics"

LoadTopicsSucceeded == LoadTopicsRan /\ failedAt # "load_topics"

ValidateRan == LoadTopicsSucceeded /\ pc # "validate"

RunEnded == pc \in {"done", "failed"}

Unresolved(i) == topics[i].event_schema \notin DOMAIN events

BadKind(i) == topics[i].event_type # "event"

Violates(i) == Unresolved(i) \/ BadKind(i)

NoEarlierViolation(i) == \A j \in 1..(i - 1) : ~Violates(j)

NamesUnresolved(i) ==
    /\ error.type = "UnknownSchema"
    /\ error.topic = topics[i].name
    /\ error.ref = topics[i].event_schema

NamesBadKind(i) ==
    /\ error.type = "InvalidType"
    /\ error.topic = topics[i].name
    /\ error.kind = topics[i].event_type

AbortedInValidate == pc = "failed" /\ failedAt = "validate"

\* ---------------------------------------------------------------------- C1
\* C1: when load_events, load_topics or validate fails, no output file has
\* been written at any point of the run (written holds every path written
\* since the run began) and the interface document is untouched.
C1_NoOutputOnLoadOrValidateFailure ==
    (pc = "failed" /\ failedAt \in {"load_events", "load_topics", "validate"})
        => (written = {} /\ asyncapi = EmptyDocument)

C1_Witness ==
    /\ AbortedInValidate
    /\ error.type = "InvalidType"
    /\ Len(topics) = 2

\* ---------------------------------------------------------------------- C2
AllArtifacts ==
    {AsyncapiPath, JavaRegistryPath, PythonDestinationPath, PythonTopicsPath}
        \cup {JavaWrapperPath(topics[i]) : i \in 1..Len(topics)}

\* C2: a run ends with every artifact regenerated or with none touched; a
\* failure in any stage leaves no strict subset of the artifacts rewritten.
C2_AllOrNothing ==
    RunEnded => (written = {} \/ (pc = "done" /\ written = AllArtifacts))

\* ---------------------------------------------------------------------- C3
\* C3 as stated: every topic with an unresolved event reference makes the run
\* abort with the unresolved-reference error naming that topic and reference.
C3_Original ==
    ValidateRan =>
        \A i \in 1..Len(topics) :
            Unresolved(i) => (AbortedInValidate /\ NamesUnresolved(i))

\* C3 amended: a topic with an unresolved event reference makes the run abort
\* in validate with nothing written; the error is the unresolved-reference
\* error naming that topic and reference when no earlier topic of the list is
\* in violation.
C3_UnresolvedReferenceAborts ==
    ValidateRan =>
        \A i \in 1..Len(topics) :
            Unresolved(i) =>
                /\ AbortedInValidate
                /\ written = {}
                /\ NoEarlierViolation(i) => NamesUnresolved(i)

C3_Witness ==
    /\ AbortedInValidate
    /\ Len(topics) = 2
    /\ ~Violates(1)
    /\ Unresolved(2)
    /\ NamesUnresolved(2)

\* ---------------------------------------------------------------------- C4
\* C4 as stated: every topic of a kind other than "event" makes the run abort
\* with the unsupported-payload-kind error naming that topic and kind.
C4_Original ==
    ValidateRan =>
        \A i \in 1..Len(topics) :
            BadKind(i) => (AbortedInValidate /\ NamesBadKind(i))

\* C4 amended: a topic of a kind other than "event" makes the run abort in
\* validate with nothing written; the error is the unsupported-payload-kind
\* error naming that topic and kind when no earlier topic is in violation and
\* the topic's own event reference resolves.
C4_UnsupportedKindAborts ==
    ValidateRan =>
        \A i \in 1..Len(topics) :
            BadKind(i) =>
                /\ AbortedInValidate
                /\ written = {}
                /\ (NoEarlierViolation(i) /\ ~Unresolved(i)) => NamesBadKind(i)

C4_Witness ==
    /\ AbortedInValidate
    /\ Len(topics) = 2
    /\ ~Violates(1)
    /\ BadKind(2)
    /\ topics[2].event_type = "command"
    /\ NamesBadKind(2)

\* ---------------------------------------------------------------------- C5
TopicFilesBefore(f) == {g \in DOMAIN topicsDir.files : g < f}

\* The i-th topic file in lexicographic order of the file names.
TopicFileAt(i) ==
    CHOOSE f \in DOMAIN topicsDir.files : Cardinality(TopicFilesBefore(f)) = i - 1

\* C5: when validate fails, the topic list is in file load order, the error
\* belongs to the first topic of the list in violation (its reference if that
\* is unresolved, else its kind), and no later topic was examined.
C5_FirstViolationReported ==
    AbortedInValidate =>
        /\ \A i \in 1..Len(topics) :
               topics[i] = BuildTopic(topicsDir.files[TopicFileAt(i)])
        /\ cursor \in 1..Len(topics)
        /\ Violates(cursor)
        /\ NoEarlierViolation(cursor)
        /\ IF Unresolved(cursor) THEN NamesUnresolved(cursor)
                                 ELSE NamesBadKind(cursor)

C5_Witness ==
    /\ AbortedInValidate
    /\ Len(topics) = 2
    /\ cursor = 1
    /\ Violates(2)
    /\ topics[1].name # topics[2].name

\* ---------------------------------------------------------------------- C6
SixFields == {"name", "topic", "producedBy", "consumedBy", "subscriptions", "payload"}

MissingFields(f) == SixFields \ DOMAIN topicsDir.files[f]

\* Files that load_topics loads without an error.
LoadsCleanly(f) ==
    /\ MissingFields(f) = {}
    /\ Len(topicsDir.files[f].topic) >= 2

NamesFileAndMissingField(f) ==
    /\ error.type = "MissingField"
    /\ error.file = f
    /\ error.field \in MissingFields(f)

\* No Topic built from file f is in the topic list or in a domain bucket:
\* every topic of the list comes from a file before f, and the Topic f's
\* document would give is nowhere.
NoTopicFrom(f) ==
    /\ Len(topics) <= Cardinality(TopicFilesBefore(f))
    /\ \A i \in 1..Len(topics) :
           topics[i] = BuildTopic(topicsDir.files[TopicFileAt(i)])
    /\ BuildTopic(topicsDir.files[f]) \notin Range(topics)
    /\ \A d \in DOMAIN domains :
           BuildTopic(topicsDir.files[f]) \notin Range(domains[d])

AbortedInLoadTopics == pc = "failed" /\ failedAt = "load_topics"

IsVersionSegment(seg) == seg \in {"v1", "v2"}

\* The file name without its extension and without a trailing version
\* segment, if it has one.
StripExtensionAndVersion(fname) ==
    LET stem == SubSeq(fname, 1, Len(fname) - 1)
    IN  IF Len(stem) >= 2 /\ IsVersionSegment(stem[Len(stem)])
        THEN SubSeq(stem, 1, Len(stem) - 1)
        ELSE stem

DeclaredIdentifier(f) ==
    IF "title" \in DOMAIN eventsDir.files[f]
    THEN eventsDir.files[f].title
    ELSE StripExtensionAndVersion(EventFileNames[f])

\* C7: after load_events the keys of the Event mapping are the files' schema
\* identifiers: the declared title when present, otherwise the file name
\* with its extension and a trailing version segment only stripped.
C7_KeyedByTitleOrVersionStrippedName ==
    LoadEventsSucceeded =>
        DOMAIN events = {DeclaredIdentifier(f) : f \in DOMAIN eventsDir.files}

\* ---------------------------------------------------------------------- C8
SchemaIdentifier(f) == SchemaName(MakeEvent(f, eventsDir.files[f]))

FilesResolvingTo(id) == {f \in DOMAIN eventsDir.files : SchemaIdentifier(f) = id}

LastFile(S) == CHOOSE f \in S : \A g \in S : g <= f

\* C8: load_events does not fail on a collision; the Event mapping holds one
\* entry per schema identifier, the Event of the file that comes last in
\* lexicographic order among those resolving to it.
C8_LastLoadedWins ==
    (LoadEventsRan /\ eventsDir.exists) =>
        /\ failedAt # "load_events"
        /\ DOMAIN events = {SchemaIdentifier(f) : f \in DOMAIN eventsDir.files}
        /\ \A id \in DOMAIN events :
               events[id] = MakeEvent(LastFile(FilesResolvingTo(id)),
                                      eventsDir.files[LastFile(FilesResolvingTo(id))])

C8_Witness ==
    /\ LoadEventsSucceeded
    /\ \E f, g \in DOMAIN eventsDir.files :
           /\ f < g
           /\ SchemaIdentifier(f) = SchemaIdentifier(g)
           /\ BaseName(EventFileNames[f]) # BaseName(EventFileNames[g])
           /\ events[SchemaIdentifier(f)].schema_path = g
           /\ events[SchemaIdentifier(f)].name = BaseName(EventFileNames[g])

\* ---------------------------------------------------------------------- C9
\* The topics of the flat list whose wire string has d as second segment.
TopicsOfDomain(d) ==
    LET InDomain(t) == t.topic[2] = d
    IN  SelectSeq(topics, InDomain)

C10_OneChannelPerTopic ==
    AsyncapiPath \in written =>
        /\ Cardinality(DOMAIN asyncapi.channels) = Len(topics)
        /\ \A i \in 1..Len(topics) :
               /\ topics[i].name \in DOMAIN asyncapi.channels
               /\ asyncapi.channels[topics[i].name].address
                      = <<"projects/{projectId}/topics/", topics[i].topic>>
               /\ asyncapi.channels[topics[i].name].messages
                      = (topics[i].event_schema
                           :> <<"#/components/messages/", topics[i].event_schema>>)

\* --------------------------------------------------------------------- C11
EventReferences == {topics[i].event_schema : i \in 1..Len(topics)}

\* C11: the keys of the document's messages and of its schemas are exactly
\* the distinct event references of the topics, and each schemas entry is
\* the body of the referenced Event as its file holds it.
C11_MessagesAndSchemasPerReference ==
    AsyncapiPath \in written =>
        /\ DOMAIN asyncapi.messages = EventReferences
        /\ DOMAIN asyncapi.schemas = EventReferences
        /\ \A ref \in EventReferences :
               /\ asyncapi.schemas[ref] = events[ref].schema
               /\ asyncapi.schemas[ref] = eventsDir.files[events[ref].schema_path]
               /\ asyncapi.messages[ref].name = ref
               /\ asyncapi.messages[ref].payload = <<"#/components/schemas/", ref>>

C11_Witness ==
    /\ AsyncapiPath \in written
    /\ Len(topics) = 2
    /\ topics[1].name # topics[2].name
    /\ topics[1].event_schema = topics[2].event_schema
    /\ Cardinality(DOMAIN events) = 2
    /\ Cardinality(DOMAIN asyncapi.schemas) = 1
    /\ Cardinality(DOMAIN asyncapi.messages) = 1

\* The topics a called wrapper was generated from.
TargetName == IF lastCall.lang = "java" THEN lastCall.target.NAME
              ELSE lastCall.target.name

TargetTopic == IF lastCall.lang = "java" THEN lastCall.target.TOPIC
               ELSE lastCall.target.topic

TopicsBehindCall ==
    { t \in Range(topics) : t.name = TargetName /\ t.topic = TargetTopic }

\* The explicit lookup on the wrapper that was called.
ExplicitLookup(consumer) ==
    IF lastCall.lang = "java" THEN JavaGetSubscription(lastCall.target, consumer)
    ELSE GetSubscription(lastCall.target, consumer)

IsAmbiguousDefault(outcome) ==
    outcome.kind \in {"ValueError", "UnsupportedOperationException"}

IsConsumerLookupError(outcome) ==
    outcome.kind \in {"KeyError", "IllegalArgumentException"}

DefaultAccessorCalled == lastCall.op = "subscription"

LookupCalled == lastCall.op = "get_subscription"

C13_LookupOutcome ==
    LookupCalled =>
        \A t \in TopicsBehindCall :
            IF lastCall.consumer \notin DOMAIN t.subscriptions.items
            THEN /\ IsConsumerLookupError(lastCall.outcome)
                 /\ lastCall.outcome.consumer = lastCall.consumer
                 /\ lastCall.outcome.valid = DOMAIN t.subscriptions.items
            ELSE lastCall.outcome = Return(t.subscriptions.items[lastCall.consumer])

C13_Lookup ==
    /\ []C13_LookupOutcome
    /\ [][lastCall' # lastCall => UNCHANGED <<javaFiles, pyTopics>>]_vars

C13_Witness ==
    /\ LookupCalled
    /\ lastCall.lang = "python"
    /\ lastCall.consumer = "billing"
    /\ lastCall.outcome.kind = "KeyError"
    /\ \E t \in TopicsBehindCall : Cardinality(DOMAIN t.subscriptions.items) = 2

\* The class a constant of the Java registry instantiates.
ClassOfConstant(c) == javaFiles[Path("wrappers/java/topics", c.package, c.class)]

\* C14: after a run, each registry (Java Topics, Python Topics) holds one
\* constant per loaded topic, no two of them under one name, and the constant
\* of a topic carries the wire-level topic string of that topic's file.
C14_RegistryConstants ==
    pc = "done" =>
        LET order == RegistryOrder(domains)
        IN  /\ Len(javaRegistry.constants) = Len(topics)
            /\ Len(pyTopics) = Len(topics)
            /\ \A i, j \in 1..Len(order) :
                 i # j => /\ javaRegistry.constants[i].const
                               # javaRegistry.constants[j].const
                          /\ pyTopics[i].const # pyTopics[j].const
            /\ \A i \in 1..Len(order) :
                 /\ ClassOfConstant(javaRegistry.constants[i]).TOPIC = order[i].topic
                 /\ pyTopics[i].dest.topic = order[i].topic

\* The name upper-cased, each hyphen replaced by an underscore.
UnderscoredUpper(str) ==
    [i \in 1..Len(str) |-> IF str[i] = "-" THEN "_" ELSE UpperChar(str[i])]

\* The words capitalised and concatenated.
RECURSIVE CapitalisedConcat(_)
CapitalisedConcat(words) ==
    IF words = <<>> THEN <<>>
    ELSE (IF Head(words) = <<>> THEN <<>>
          ELSE <<UpperChar(Head(words)[1])>> \o Lower(Tail(Head(words))))
         \o CapitalisedConcat(Tail(words))

IsCapital(c) == IndexIn(Capitals, c) # 0

\* Splitting at capitals: a new word begins at every upper-case letter.
RECURSIVE SplitAtCapitals(_)
SplitAtCapitals(str) ==
    IF str = <<>> THEN <<>>
    ELSE LET rest == SplitAtCapitals(Tail(str))
         IN  IF rest = <<>> \/ IsCapital(str[2])
             THEN << <<Head(str)>> >> \o rest
             ELSE << <<Head(str)>> \o rest[1] >> \o Tail(rest)

\* The word sequence a class name gives back.
RecoveredWords(class) ==
    LET parts == SplitAtCapitals(class)
    IN  [i \in 1..Len(parts) |-> Lower(parts[i])]

\* Every word is non-empty, begins with a lower-case letter and holds no
\* upper-case letter.
PlainWords(str) ==
    \A w \in Range(Split(str, "-")) :
        /\ w # <<>>
        /\ IndexIn(Letters, w[1]) # 0
        /\ \A i \in 1..Len(w) : ~IsCapital(w[i])

SameInEveryEmitter ==
    /\ naming.javaRegistryConst = UnderscoredUpper(naming.name)
    /\ naming.javaClassConst = UnderscoredUpper(naming.name)
    /\ naming.pythonConst = UnderscoredUpper(naming.name)
    /\ naming.topicConst = UnderscoredUpper(naming.name)
    /\ naming.javaWrapperClass = CapitalisedConcat(Split(naming.name, "-"))
    /\ naming.javaRegistryClass = CapitalisedConcat(Split(naming.name, "-"))

\* C15 as stated: the constant name is the same string in every emitter, the
\* name upper-cased with hyphens replaced by underscores; the class name is
\* the capitalised words concatenated; splitting the class name at capitals
\* recovers the word sequence of every name.
C15_Original ==
    naming.applied =>
        /\ SameInEveryEmitter
        /\ RecoveredWords(naming.javaWrapperClass) = Split(naming.name, "-")

\* C15: the constant name is the same string in every emitter, the name
\* upper-cased with hyphens replaced by underscores; the class name is the
\* capitalised words concatenated; splitting the class name at capitals
\* recovers the word sequence when every word is non-empty, begins with a
\* lower-case letter and holds no upper-case letter.
C15_NamingTransforms ==
    naming.applied =>
        /\ SameInEveryEmitter
        /\ PlainWords(naming.name) =>
             RecoveredWords(naming.javaWrapperClass) = Split(naming.name, "-")

C15_Witness ==
    /\ naming.applied
    /\ naming.name = <<"a", "1", "-", "a">>
    /\ naming.pythonConst = <<"A", "1", "_", "A">>
    /\ naming.javaRegistryClass = <<"A", "1", "A">>
    /\ RecoveredWords(naming.javaRegistryClass) = << <<"a", "1">>, <<"a">> >>

\* C16: a second run on the same input files, whatever the order in which the
\* directories enumerate them and with the files of the first run in place,
\* ends as the first did and leaves every generated file with the same content.
C16_RerunReproducesOutputs ==
    (run = 2 /\ firstRun.pc = "done" /\ pc \in {"done", "failed"}) =>
        Outputs = firstRun

C16_Witness ==
    /\ run = 2
    /\ firstRun.pc = "done"
    /\ pc = "done"
    /\ Len(topics) = 2
    /\ topics[1].name # topics[2].name
    /\ DomainOf(topics[1]) = DomainOf(topics[2])
    /\ Cardinality(DOMAIN eventsDir.files) = 2

\* C17: after a run that passed validate, no two members of the generated
\* EventType enumeration share a name, and the event_type of every registry
\* constant names a member whose value is the constant's own wire-level topic
\* string.
C17_EventTypeMembers ==
    pc = "done" =>
        /\ \A i, j \in 1..Len(pyEventTypes) :
             i # j => pyEventTypes[i].member # pyEventTypes[j].member
        /\ \A i \in 1..Len(pyTopics) :
             \E k \in 1..Len(pyEventTypes) :
                 /\ pyEventTypes[k].member = pyTopics[i].dest.event_type
                 /\ pyEventTypes[k].value = pyTopics[i].dest.topic

\* C18: every topic of a run that passed load_topics and validate has the
\* keys of its subscriptions mapping for consumers, and the default accessor
\* of a topic with exactly one consumer returns a subscription name.
C18_ConsumersAreSubscriptionKeys ==
    /\ pc = "done" =>
         \A t \in Range(topics) :
             Range(t.consumed_by) = DOMAIN t.subscriptions.items
    /\ DefaultAccessorCalled =>
         \A t \in TopicsBehindCall :
             Len(t.consumed_by) = 1 => lastCall.outcome.kind = "return"

====
